---- MODULE Spec2Model ----
(***************************************************************************)
(* Model of the Writer's Assistant backend (src/app.py): the document      *)
(* store (save / load / list over one JSON file per document plus an       *)
(* in-memory mapping), document export and the keyword based text advice   *)
(* functions.  Strings are sequences of one-character strings.             *)
(***************************************************************************)
EXTENDS Integers, Sequences, FiniteSets, TLC

(***************************************************************************)
(* Bounds of the model                                                     *)
(***************************************************************************)
\* number of save requests handled in one behaviour
MaxSaves == 2
\* last reading of the clock, in ticks
MaxClock == 1
\* clock ticks per second (a tick is 1000000 \div TicksPerSec microseconds)
TicksPerSec == 1

(***************************************************************************)
(* Characters and strings                                                  *)
(***************************************************************************)
None == "None"

UpperLetters ==
  <<"A","B","C","D","E","F","G","H","I","J","K","L","M",
    "N","O","P","Q","R","S","T","U","V","W","X","Y","Z">>

LowerLetters ==
  <<"a","b","c","d","e","f","g","h","i","j","k","l","m",
    "n","o","p","q","r","s","t","u","v","w","x","y","z">>

DigitChars == <<"0","1","2","3","4","5","6","7","8","9">>

\* the characters of the model in code point order
CodePointOrder ==
  <<"\n", " ", "\"", "'", "-", ".", "/">> \o DigitChars \o <<":", "<", ">">>
  \o UpperLetters \o <<"\\", "_">> \o LowerLetters \o <<"{", "}">>

Ord(c) == CHOOSE i \in 1..Len(CodePointOrder) : CodePointOrder[i] = c

\* Python's str < str : lexicographic by code point, a proper prefix is smaller
RECURSIVE StrLess(_, _)
StrLess(s, t) ==
  IF t = <<>> THEN FALSE
  ELSE IF s = <<>> THEN TRUE
  ELSE IF Head(s) = Head(t) THEN StrLess(Tail(s), Tail(t))
  ELSE Ord(Head(s)) < Ord(Head(t))

LowerChar(c) ==
  IF \E i \in 1..26 : UpperLetters[i] = c
  THEN LowerLetters[CHOOSE i \in 1..26 : UpperLetters[i] = c]
  ELSE c

\* str.lower()
Lower(s) == [i \in 1..Len(s) |-> LowerChar(s[i])]

\* sub in s
Contains(s, sub) ==
  \E i \in 1..(Len(s) - Len(sub) + 1) : SubSeq(s, i, i + Len(sub) - 1) = sub

\* s.endswith(suffix)
EndsWith(s, suffix) ==
  /\ Len(s) >= Len(suffix)
  /\ SubSeq(s, Len(s) - Len(suffix) + 1, Len(s)) = suffix

\* s.find(sub) : 0-based offset of the first occurrence, -1 when absent
Find(s, sub) ==
  IF Contains(s, sub)
  THEN (CHOOSE i \in 1..Len(s) :
          /\ i + Len(sub) - 1 <= Len(s)
          /\ SubSeq(s, i, i + Len(sub) - 1) = sub
          /\ \A j \in 1..(i - 1) : SubSeq(s, j, j + Len(sub) - 1) # sub) - 1
  ELSE -1

\* 1-based position of the first occurrence of sep in s at or after i, 0 if none
FindFrom(s, sep, i) ==
  LET hits == {j \in i..(Len(s) - Len(sep) + 1) : SubSeq(s, j, j + Len(sep) - 1) = sep}
  IN IF hits = {} THEN 0 ELSE CHOOSE j \in hits : \A k \in hits : j <= k

\* s.split(sep) for a non-empty separator
RECURSIVE SplitFrom(_, _, _)
SplitFrom(s, sep, i) ==
  LET j == FindFrom(s, sep, i) IN
  IF j = 0 THEN <<SubSeq(s, i, Len(s))>>
  ELSE <<SubSeq(s, i, j - 1)>> \o SplitFrom(s, sep, j + Len(sep))

Split(s, sep) == SplitFrom(s, sep, 1)

Repeat(c, n) == [i \in 1..n |-> c]

\* decimal digits of n, zero padded to the given width
RECURSIVE ZeroPad(_, _)
ZeroPad(n, width) ==
  IF width = 0 THEN <<>>
  ELSE Append(ZeroPad(n \div 10, width - 1), DigitChars[(n % 10) + 1])

(***************************************************************************)
(* The clock: datetime.now(), isoformat() and strftime('%Y%m%d%H%M%S')     *)
(* A reading is a number of ticks since 2024-01-01T00:00:00; the model     *)
(* stays within the first minute.                                          *)
(***************************************************************************)
Second(t) == t \div TicksPerSec

Microsecond(t) == (t % TicksPerSec) * (1000000 \div TicksPerSec)

\* datetime.isoformat(): the fraction is omitted when microsecond is 0
IsoFormat(t) ==
  <<"2","0","2","4","-","0","1","-","0","1","T","0","0",":","0","0",":">>
  \o ZeroPad(Second(t), 2)
  \o (IF Microsecond(t) = 0 THEN <<>> ELSE <<".">> \o ZeroPad(Microsecond(t), 6))

\* datetime.strftime('%Y%m%d%H%M%S')
StrfTime(t) ==
  <<"2","0","2","4","0","1","0","1","0","0","0","0">> \o ZeroPad(Second(t), 2)

(***************************************************************************)
(* JSON: json.dump(document, f, indent=2) and json.load(f) for objects     *)
(* whose members are strings.                                              *)
(***************************************************************************)
KeyId == <<"i","d">>
KeyTitle == <<"t","i","t","l","e">>
KeyContent == <<"c","o","n","t","e","n","t">>
KeyCreatedAt == <<"c","r","e","a","t","e","d","_","a","t">>
KeyUpdatedAt == <<"u","p","d","a","t","e","d","_","a","t">>

\* insertion order of the keys of the document dict
DocKeys == <<KeyId, KeyTitle, KeyContent, KeyCreatedAt, KeyUpdatedAt>>

\* a string written between quotes without escaping
JsonEscapeCharRaw(c) == <<c>>

JsonEscapeChar(c) ==
  IF c = "\"" THEN <<"\\", "\"">>
  ELSE IF c = "\\" THEN <<"\\", "\\">>
  ELSE IF c = "\n" THEN <<"\\", "n">>
  ELSE <<c>>

RECURSIVE JsonEscape(_)
JsonEscape(s) ==
  IF s = <<>> THEN <<>> ELSE JsonEscapeChar(Head(s)) \o JsonEscape(Tail(s))

JsonEncodeString(s) == <<"\"">> \o JsonEscape(s) \o <<"\"">>

RECURSIVE JsonDumpMembers(_, _)
JsonDumpMembers(doc, keys) ==
  IF keys = <<>> THEN <<>>
  ELSE <<"\n", " ", " ">> \o JsonEncodeString(Head(keys)) \o <<":", " ">>
       \o JsonEncodeString(doc[Head(keys)])
       \o (IF Len(keys) > 1 THEN <<",">> ELSE <<>>)
       \o JsonDumpMembers(doc, Tail(keys))

JsonDump(doc) == <<"{">> \o JsonDumpMembers(doc, DocKeys) \o <<"\n", "}">>

IsWs(c) == c \in {" ", "\n"}

RECURSIVE SkipWs(_, _)
SkipWs(text, i) ==
  IF i <= Len(text) /\ IsWs(text[i]) THEN SkipWs(text, i + 1) ELSE i

ParseFail == [ok |-> FALSE]

\* the body of a JSON string from position i on, up to the closing quote
RECURSIVE ParseStringBody(_, _, _)
ParseStringBody(text, i, acc) ==
  IF i > Len(text) THEN ParseFail
  ELSE IF text[i] \notin {"\"", "\\", "\n"}
       THEN ParseStringBody(text, i + 1, Append(acc, text[i]))
  ELSE IF text[i] = "\"" THEN [ok |-> TRUE, value |-> acc, next |-> i + 1]
  ELSE IF text[i] = "\n" THEN ParseFail
  ELSE IF i + 1 > Len(text) THEN ParseFail
  ELSE IF text[i + 1] \in {"\"", "\\", "/"}
       THEN ParseStringBody(text, i + 2, Append(acc, text[i + 1]))
  ELSE IF text[i + 1] = "n"
       THEN ParseStringBody(text, i + 2, Append(acc, "\n"))
  ELSE ParseFail

ParseString(text, i) ==
  IF i <= Len(text) /\ text[i] = "\"" THEN ParseStringBody(text, i + 1, <<>>)
  ELSE ParseFail

\* the members of an object from position i on; acc is the dict built so far
RECURSIVE ParseMembers(_, _, _)
ParseMembers(text, i, acc) ==
  LET k == ParseString(text, SkipWs(text, i)) IN
  IF ~k.ok THEN ParseFail
  ELSE LET c == SkipWs(text, k.next) IN
       IF ~(c <= Len(text) /\ text[c] = ":") THEN ParseFail
       ELSE LET v == ParseString(text, SkipWs(text, c + 1)) IN
            IF ~v.ok THEN ParseFail
            ELSE LET e == SkipWs(text, v.next)
                     dict == (k.value :> v.value) @@ acc
                 IN IF e > Len(text) THEN ParseFail
                    ELSE IF text[e] = "," THEN ParseMembers(text, e + 1, dict)
                    ELSE IF text[e] = "}"
                         THEN [ok |-> TRUE, value |-> dict, next |-> e + 1]
                    ELSE ParseFail

\* json.load: [ok |-> TRUE, value |-> dict] or a JSONDecodeError
JsonLoad(text) ==
  LET b == SkipWs(text, 1) IN
  IF ~(b <= Len(text) /\ text[b] = "{") THEN ParseFail
  ELSE LET m == IF SkipWs(text, b + 1) <= Len(text) /\ text[SkipWs(text, b + 1)] = "}"
                THEN [ok |-> TRUE, value |-> << >>, next |-> SkipWs(text, b + 1) + 1]
                ELSE ParseMembers(text, b + 1, << >>)
       IN IF ~m.ok THEN ParseFail
          ELSE IF SkipWs(text, m.next) <= Len(text) THEN ParseFail
          ELSE [ok |-> TRUE, value |-> m.value]

\* dict.get(key) : None when the key is absent
Get(dict, key) == IF key \in DOMAIN dict THEN dict[key] ELSE None

(***************************************************************************)
(* Paths and the file system.  A location is the sequence of directory     *)
(* names from the working directory down to the file; ".." entries stand   *)
(* for ancestors of the working directory and a leading "/" for the root.  *)
(***************************************************************************)
DATA_DIR == <<"d","a","t","a">>

JsonSuffix == <<".","j","s","o","n">>

Slash == <<"/">>
Dot == <<".">>
DotDot == <<".", ".">>

\* the directories that exist: the working directory and the data directory
\* made at start-up; the program creates no other directory
Dirs == {<< >>, <<DATA_DIR>>}

DirExists(d) == d \in Dirs \/ d = <<Slash>> \/ \A i \in 1..Len(d) : d[i] = DotDot

Front(s) == SubSeq(s, 1, Len(s) - 1)
Last(s) == s[Len(s)]

Parent(d) ==
  IF d = <<Slash>> THEN d
  ELSE IF d = << >> \/ Last(d) = DotDot THEN Append(d, DotDot)
  ELSE Front(d)

\* os.path.join(a, b)
JoinPath(a, b) == IF b # <<>> /\ Head(b) = "/" THEN b ELSE a \o Slash \o b

\* walk the directory components of a path; every one has to exist
RECURSIVE WalkDirs(_, _)
WalkDirs(cur, comps) ==
  IF comps = << >> THEN [ok |-> TRUE, dir |-> cur]
  ELSE LET c == Head(comps)
           nxt == IF c = << >> \/ c = Dot THEN cur
                  ELSE IF c = DotDot THEN Parent(cur)
                  ELSE Append(cur, c)
       IN IF DirExists(nxt) THEN WalkDirs(nxt, Tail(comps)) ELSE [ok |-> FALSE]

\* the location a path names, when all its directories exist and its last
\* component is a file name
Resolve(path) ==
  LET comps == Split(path, Slash)
      start == IF path # <<>> /\ Head(path) = "/" THEN <<Slash>> ELSE << >>
      w == WalkDirs(start, Front(comps))
  IN IF w.ok /\ Last(comps) \notin {<< >>, Dot, DotDot}
     THEN [ok |-> TRUE, loc |-> Append(w.dir, Last(comps))]
     ELSE [ok |-> FALSE]

\* os.path.join(DATA_DIR, f'{doc_id}.json')
FilePath(doc_id) == JoinPath(DATA_DIR, doc_id \o JsonSuffix)

(***************************************************************************)
(* State                                                                   *)
(***************************************************************************)
VARIABLES
  documents,   \* the in-memory mapping: doc_id -> document
  files,       \* the file system: location -> text of the file
  now,         \* the clock
  resp,        \* the request handled last and its response
  lastSave,    \* history: the save request handled last and its outcome
  savedCount,  \* history: doc_id -> number of saves of it that succeeded
  nSaves       \* history: number of save requests handled

vars == <<documents, files, now, resp, lastSave, savedCount, nSaves>>

EmptyMap == << >>

\* os.path.exists(path)
Exists(path) == LET r == Resolve(path) IN r.ok /\ r.loc \in DOMAIN files

\* os.listdir(DATA_DIR) as a set; the order of the scan is up to the platform
ListDir == {Last(loc) : loc \in {l \in DOMAIN files : Front(l) = <<DATA_DIR>>}}

Perms(S) ==
  {s \in [1..Cardinality(S) -> S] : \A i, j \in 1..Cardinality(S) : i # j => s[i] # s[j]}

(***************************************************************************)
(* Requests                                                                *)
(***************************************************************************)
IdParent == <<".", ".", "/", "a">>
IdSubdir == <<"s", "/", "a">>

Title1 == <<"M", "y", " ", "\"", "\\">>
Content1 == <<"x", "\n", "y">>

\* request bodies of save-document: id, title and content are optional
SaveRequests ==
  { (KeyTitle :> Title1) @@ (KeyContent :> Content1),
    (KeyId :> IdParent) @@ (KeyTitle :> Title1),
    (KeyId :> IdSubdir) }

LoadIds == {IdParent, IdSubdir} \cup {StrfTime(t) : t \in 0..MaxClock}

\* data.get(key, default)
GetDefault(dict, key, default) == IF key \in DOMAIN dict THEN dict[key] ELSE default

(***************************************************************************)
(* Document store                                                          *)
(***************************************************************************)
Init ==
  /\ documents = EmptyMap
  /\ files = EmptyMap
  /\ now = 0
  /\ resp = [op |-> "start"]
  /\ lastSave = [ok |-> FALSE]
  /\ savedCount = EmptyMap
  /\ nSaves = 0

\* the document object built by save_document; the clock is read once for
\* the default id and once for each timestamp, and never runs backwards
NewDocument(data, tId, tCreated, tUpdated) ==
  (KeyId :> GetDefault(data, KeyId, StrfTime(tId)))
  @@ (KeyTitle :> GetDefault(data, KeyTitle,
        <<"U","n","t","i","t","l","e","d"," ","D","o","c","u","m","e","n","t">>))
  @@ (KeyContent :> GetDefault(data, KeyContent, <<>>))
  @@ (KeyCreatedAt :> IsoFormat(tCreated))
  @@ (KeyUpdatedAt :> IsoFormat(tUpdated))

\* POST /api/save-document
save_document(data) ==
  /\ nSaves < MaxSaves
  /\ nSaves' = nSaves + 1
  /\ \E tId \in now..MaxClock :
     \E tCreated \in tId..MaxClock :
     \E tUpdated \in tCreated..MaxClock :
       LET document == NewDocument(data, tId, tCreated, tUpdated)
           doc_id == document[KeyId]
           r == Resolve(FilePath(doc_id))
       IN /\ now' = tUpdated
          /\ documents' = (doc_id :> document) @@ documents
          /\ IF r.ok
             THEN /\ files' = (r.loc :> JsonDump(document)) @@ files
                  /\ resp' = [op |-> "save", data |-> data, status |-> 200,
                              success |-> TRUE, document |-> document]
                  /\ lastSave' = [ok |-> TRUE, data |-> data, document |-> document]
                  /\ savedCount' =
                       (doc_id :> (GetDefault(savedCount, doc_id, 0) + 1)) @@ savedCount
             ELSE \* open() raises OSError: a directory of the path is missing
                  /\ files' = files
                  /\ resp' = [op |-> "save", data |-> data, status |-> 500]
                  /\ lastSave' = [ok |-> FALSE, data |-> data, document |-> document]
                  /\ savedCount' = savedCount

\* load_document answering from the in-memory mapping when it has the id
LoadResultCached(doc_id) ==
  IF doc_id \in DOMAIN documents
  THEN [op |-> "load", doc_id |-> doc_id, status |-> 200,
        success |-> TRUE, document |-> documents[doc_id]]
  ELSE IF Exists(FilePath(doc_id))
  THEN LET parsed == JsonLoad(files[Resolve(FilePath(doc_id)).loc]) IN
       IF parsed.ok
       THEN [op |-> "load", doc_id |-> doc_id, status |-> 200,
             success |-> TRUE, document |-> parsed.value]
       ELSE [op |-> "load", doc_id |-> doc_id, status |-> 500]
  ELSE [op |-> "load", doc_id |-> doc_id, status |-> 404,
        success |-> FALSE, error |-> "Document not found"]

\* the response of load_document in the current state
LoadResult(doc_id) ==
  IF Exists(FilePath(doc_id))
  THEN LET parsed == JsonLoad(files[Resolve(FilePath(doc_id)).loc]) IN
       IF parsed.ok
       THEN [op |-> "load", doc_id |-> doc_id, status |-> 200,
             success |-> TRUE, document |-> parsed.value]
       ELSE [op |-> "load", doc_id |-> doc_id, status |-> 500]
  ELSE [op |-> "load", doc_id |-> doc_id, status |-> 404,
        success |-> FALSE, error |-> "Document not found"]

\* load_document keeping the document it read in the in-memory mapping
load_document_caching(doc_id) ==
  /\ resp' = LoadResult(doc_id)
  /\ documents' = IF LoadResult(doc_id).status = 200
                  THEN (doc_id :> LoadResult(doc_id).document) @@ documents
                  ELSE documents
  /\ UNCHANGED <<files, now, lastSave, savedCount, nSaves>>

\* GET /api/load-document/<doc_id>
load_document(doc_id) ==
  /\ resp' = LoadResult(doc_id)
  /\ UNCHANGED <<documents, files, now, lastSave, savedCount, nSaves>>

\* the metadata projected out of a parsed document file
Metadata(doc) ==
  [id |-> Get(doc, KeyId), title |-> Get(doc, KeyTitle),
   created_at |-> Get(doc, KeyCreatedAt), updated_at |-> Get(doc, KeyUpdatedAt)]

\* insert e behind every entry whose key is not smaller than its own
RECURSIVE InsertDesc(_, _)
InsertDesc(sorted, e) ==
  IF sorted = << >> THEN <<e>>
  ELSE IF StrLess(Head(sorted).updated_at, e.updated_at)
       THEN <<e>> \o sorted
       ELSE <<Head(sorted)>> \o InsertDesc(Tail(sorted), e)

\* doc_list.sort(key=updated_at, reverse=True) : a stable sort
RECURSIVE SortDesc(_, _)
SortDesc(list, sorted) ==
  IF list = << >> THEN sorted
  ELSE SortDesc(Tail(list), InsertDesc(sorted, Head(list)))

\* the sort without reverse=True
SortByUpdatedAsc(list) ==
  LET sorted == SortDesc(list, << >>)
  IN [i \in 1..Len(sorted) |-> sorted[Len(sorted) + 1 - i]]

SortByUpdatedDesc(list) == SortDesc(list, << >>)

\* json.load of every document file of the data directory: a file is read
\* the same way wherever it comes in the scan
ParsedFiles ==
  [name \in {n \in ListDir : EndsWith(n, JsonSuffix)} |->
     JsonLoad(files[Resolve(JoinPath(DATA_DIR, name)).loc])] @@ EmptyMap

\* the loop of list_documents over the file names in scan order
RECURSIVE ScanFiles(_, _, _)
ScanFiles(names, parsed, doc_list) ==
  IF names = << >> THEN [ok |-> TRUE, value |-> doc_list]
  ELSE IF EndsWith(Head(names), JsonSuffix)
       THEN IF parsed[Head(names)].ok
            THEN ScanFiles(Tail(names), parsed,
                           Append(doc_list, Metadata(parsed[Head(names)].value)))
            ELSE [ok |-> FALSE]
       ELSE ScanFiles(Tail(names), parsed, doc_list)

ListResult(scan, parsed) ==
  LET scanned == ScanFiles(scan, parsed, << >>) IN
  IF scanned.ok
  THEN [op |-> "list", scan |-> scan, status |-> 200, success |-> TRUE,
        documents |-> SortByUpdatedDesc(scanned.value)]
  ELSE [op |-> "list", scan |-> scan, status |-> 500]

\* GET /api/list-documents
list_documents ==
  /\ LET parsed == ParsedFiles
     IN \E scan \in Perms(ListDir) : resp' = ListResult(scan, parsed)
  /\ UNCHANGED <<documents, files, now, lastSave, savedCount, nSaves>>

\* the process is started again: the module level code runs anew, the data
\* directory is kept
Restart ==
  /\ documents # EmptyMap
  /\ documents' = EmptyMap
  /\ resp' = [op |-> "start"]
  /\ UNCHANGED <<files, now, lastSave, savedCount, nSaves>>

(***************************************************************************)
(* Export                                                                  *)
(***************************************************************************)
KeyFormat == <<"f","o","r","m","a","t">>

FormatTxt ==
  <<"t","x","t">>

FormatHtml ==
  <<"h","t","m","l">>

FormatMarkdown ==
  <<"m","a","r","k","d","o","w","n">>

HtmlHead ==
  <<"<","h","t","m","l",">","<","h","e","a","d",">","<","t","i","t","l","e",
    ">","E","x","p","o","r","t","e","d"," ","D","o","c","u","m","e","n","t",
    "<","/","t","i","t","l","e",">","<","/","h","e","a","d",">","<","b","o",
    "d","y",">","<","p","r","e",">">>

HtmlFoot ==
  <<"<","/","p","r","e",">","<","/","b","o","d","y",">","<","/","h","t","m",
    "l",">">>

\* export_document treating every unrecognised format as plain text
ExportResultLenient(data) ==
  LET content == GetDefault(data, KeyContent, << >>)
      format_type == GetDefault(data, KeyFormat, FormatTxt)
  IN IF format_type = FormatHtml
     THEN [op |-> "export", data |-> data, status |-> 200, success |-> TRUE,
           format |-> FormatHtml, content |-> HtmlHead \o content \o HtmlFoot]
     ELSE IF format_type = FormatMarkdown
     THEN [op |-> "export", data |-> data, status |-> 200, success |-> TRUE,
           format |-> FormatMarkdown, content |-> content]
     ELSE [op |-> "export", data |-> data, status |-> 200, success |-> TRUE,
           format |-> FormatTxt, content |-> content]

\* the response of export_document
ExportResult(data) ==
  LET content == GetDefault(data, KeyContent, << >>)
      format_type == GetDefault(data, KeyFormat, FormatTxt)
  IN IF format_type = FormatTxt
     THEN [op |-> "export", data |-> data, status |-> 200, success |-> TRUE,
           format |-> FormatTxt, content |-> content]
     ELSE IF format_type = FormatHtml
     THEN [op |-> "export", data |-> data, status |-> 200, success |-> TRUE,
           format |-> FormatHtml, content |-> HtmlHead \o content \o HtmlFoot]
     ELSE IF format_type = FormatMarkdown
     THEN [op |-> "export", data |-> data, status |-> 200, success |-> TRUE,
           format |-> FormatMarkdown, content |-> content]
     ELSE [op |-> "export", data |-> data, status |-> 400, success |-> FALSE,
           error |-> "Unsupported format"]

\* POST /api/export-document
export_document(data) ==
  /\ resp' = ExportResult(data)
  /\ UNCHANGED <<documents, files, now, lastSave, savedCount, nSaves>>

(***************************************************************************)
(* Text advice                                                             *)
(***************************************************************************)
KwGrammar ==
  <<"g","r","a","m","m","a","r">>

KwSpell ==
  <<"s","p","e","l","l">>

KwStyle ==
  <<"s","t","y","l","e">>

KwImprove ==
  <<"i","m","p","r","o","v","e">>

KwIdea ==
  <<"i","d","e","a">>

KwSuggest ==
  <<"s","u","g","g","e","s","t">>

KwHello ==
  <<"h","e","l","l","o">>

KwHi ==
  <<"h","i">>

KwHelp ==
  <<"h","e","l","p">>

ReplyGrammar ==
  <<"I"," ","c","a","n"," ","h","e","l","p"," ","y","o","u"," ","c","h","e",
    "c","k"," ","g","r","a","m","m","a","r"," ","a","n","d"," ","s","p","e",
    "l","l","i","n","g","!"," ","T","r","y"," ","u","s","i","n","g"," ","t",
    "h","e"," ","'","C","h","e","c","k"," ","G","r","a","m","m","a","r","'",
    " ","b","u","t","t","o","n"," ","o","r"," ","p","a","s","t","e"," ","y",
    "o","u","r"," ","t","e","x","t"," ","h","e","r","e",".">>

ReplyStyle ==
  <<"I"," ","c","a","n"," ","h","e","l","p"," ","i","m","p","r","o","v","e",
    " ","y","o","u","r"," ","w","r","i","t","i","n","g"," ","s","t","y","l",
    "e","!"," ","U","s","e"," ","t","h","e"," ","'","I","m","p","r","o","v",
    "e"," ","S","t","y","l","e","'"," ","b","u","t","t","o","n"," ","f","o",
    "r"," ","s","u","g","g","e","s","t","i","o","n","s",".">>

ReplyIdea ==
  <<"I"," ","c","a","n"," ","h","e","l","p"," ","g","e","n","e","r","a","t",
    "e"," ","w","r","i","t","i","n","g"," ","i","d","e","a","s","!"," ","U",
    "s","e"," ","t","h","e"," ","'","G","e","n","e","r","a","t","e"," ","I",
    "d","e","a","s","'"," ","b","u","t","t","o","n"," ","o","r"," ","t","e",
    "l","l"," ","m","e"," ","w","h","a","t"," ","y","o","u","'","r","e"," ",
    "w","r","i","t","i","n","g"," ","a","b","o","u","t",".">>

ReplyHello ==
  <<"H","e","l","l","o","!"," ","I","'","m"," ","R","u","b","r","i","c","y",
    ","," ","y","o","u","r"," ","w","r","i","t","i","n","g"," ","a","s","s",
    "i","s","t","a","n","t","."," ","H","o","w"," ","c","a","n"," ","I"," ",
    "h","e","l","p"," ","y","o","u"," ","w","i","t","h"," ","y","o","u","r",
    " ","w","r","i","t","i","n","g"," ","t","o","d","a","y","?">>

\* the bullet characters of the source are written as *
ReplyHelp ==
  <<"I"," ","c","a","n"," ","h","e","l","p"," ","y","o","u"," ","w","i","t",
    "h",":","\n","*"," ","G","r","a","m","m","a","r"," ","a","n","d"," ",
    "s","p","e","l","l","i","n","g"," ","c","h","e","c","k","s","\n","*",
    " ","W","r","i","t","i","n","g"," ","s","t","y","l","e"," ","i","m","p",
    "r","o","v","e","m","e","n","t","s","\n","*"," ","G","e","n","e","r",
    "a","t","i","n","g"," ","i","d","e","a","s","\n","*"," ","O","r","g",
    "a","n","i","z","i","n","g"," ","y","o","u","r"," ","t","h","o","u","g",
    "h","t","s","\n","\n","W","h","a","t"," ","w","o","u","l","d"," ","y",
    "o","u"," ","l","i","k","e"," ","h","e","l","p"," ","w","i","t","h",
    "?">>

EchoHead ==
  <<"I"," ","u","n","d","e","r","s","t","a","n","d"," ","y","o","u","'","r",
    "e"," ","a","s","k","i","n","g"," ","a","b","o","u","t"," ","'">>

EchoFoot ==
  <<"'","."," ","I","'","m"," ","h","e","r","e"," ","t","o"," ","h","e","l",
    "p"," ","w","i","t","h"," ","y","o","u","r"," ","w","r","i","t","i","n",
    "g","!"," ","T","r","y"," ","a","s","k","i","n","g"," ","a","b","o","u",
    "t"," ","g","r","a","m","m","a","r",","," ","s","t","y","l","e",","," ",
    "o","r"," ","i","d","e","a","s"," ","f","o","r"," ","y","o","u","r"," ",
    "p","i","e","c","e",".">>

\* the keyword chain with the help branch tested before the greeting branch
generate_chat_response_help_first(message, context) ==
  LET message_lower == Lower(message) IN
  IF Contains(message_lower, KwGrammar) \/ Contains(message_lower, KwSpell)
  THEN ReplyGrammar
  ELSE IF Contains(message_lower, KwStyle) \/ Contains(message_lower, KwImprove)
  THEN ReplyStyle
  ELSE IF Contains(message_lower, KwIdea) \/ Contains(message_lower, KwSuggest)
  THEN ReplyIdea
  ELSE IF Contains(message_lower, KwHelp)
  THEN ReplyHelp
  ELSE IF Contains(message_lower, KwHello) \/ Contains(message_lower, KwHi)
  THEN ReplyHello
  ELSE EchoHead \o message \o EchoFoot

generate_chat_response(message, context) ==
  LET message_lower == Lower(message) IN
  IF Contains(message_lower, KwGrammar) \/ Contains(message_lower, KwSpell)
  THEN ReplyGrammar
  ELSE IF Contains(message_lower, KwStyle) \/ Contains(message_lower, KwImprove)
  THEN ReplyStyle
  ELSE IF Contains(message_lower, KwIdea) \/ Contains(message_lower, KwSuggest)
  THEN ReplyIdea
  ELSE IF Contains(message_lower, KwHello) \/ Contains(message_lower, KwHi)
  THEN ReplyHello
  ELSE IF Contains(message_lower, KwHelp)
  THEN ReplyHelp
  ELSE EchoHead \o message \o EchoFoot

\* POST /api/chat
chat(message, context) ==
  /\ resp' = [op |-> "chat", message |-> message, context |-> context,
              status |-> 200, success |-> TRUE,
              response |-> generate_chat_response(message, context)]
  /\ UNCHANGED <<documents, files, now, lastSave, savedCount, nSaves>>

check_grammar_issues(text) ==
  IF Len(text) > 0 /\ Contains(text, <<" ", " ">>)
  THEN << [type |-> "formatting", message |-> "Double spaces detected",
           position |-> Find(text, <<" ", " ">>)] >>
  ELSE << >>

\* one suggestion for every issue of type formatting, in the order of the issues
generate_grammar_suggestions(issues) ==
  LET formatting == SelectSeq(issues, LAMBDA issue : issue.type = "formatting")
  IN [i \in 1..Len(formatting) |-> "Remove extra spaces for better formatting."]

\* POST /api/check-grammar
check_grammar(text) ==
  /\ resp' = [op |-> "check-grammar", text |-> text, status |-> 200, success |-> TRUE,
              issues |-> check_grammar_issues(text),
              suggestions |-> generate_grammar_suggestions(check_grammar_issues(text))]
  /\ UNCHANGED <<documents, files, now, lastSave, savedCount, nSaves>>

LongSentenceLen == 100
LongParagraphLen == 500

generate_style_suggestions(text) ==
  IF Len(text) > 0
  THEN LET sentences == Split(text, <<".">>)
           paragraphs == Split(text, <<"\n", "\n">>)
       IN (IF \E i \in 1..Len(sentences) : Len(sentences[i]) > LongSentenceLen
           THEN <<"Consider breaking up long sentences for better readability.">>
           ELSE << >>)
          \o (IF Len(paragraphs) > 0 /\ Len(paragraphs[1]) > LongParagraphLen
              THEN <<"Consider splitting long paragraphs into shorter ones.">>
              ELSE << >>)
  ELSE << >>

apply_style_improvements(text, suggestions) == text

\* POST /api/improve-style
improve_style(text) ==
  /\ resp' = [op |-> "improve-style", text |-> text, status |-> 200, success |-> TRUE,
              suggestions |-> generate_style_suggestions(text),
              improved_text |-> apply_style_improvements(text, generate_style_suggestions(text))]
  /\ UNCHANGED <<documents, files, now, lastSave, savedCount, nSaves>>

IdeaPerspectives ==
  <<"E","x","p","l","o","r","e"," ","d","i","f","f","e","r","e","n","t"," ",
    "p","e","r","s","p","e","c","t","i","v","e","s"," ","o","n"," ","'">>

IdeaStoryHead ==
  <<"W","r","i","t","e"," ","a"," ","s","t","o","r","y"," ","a","b","o","u",
    "t"," ","'">>

IdeaStoryFoot ==
  <<"'"," ","f","r","o","m"," ","a"," ","u","n","i","q","u","e"," ","a","n",
    "g","l","e">>

IdeaDescription ==
  <<"C","r","e","a","t","e"," ","a"," ","d","e","t","a","i","l","e","d"," ",
    "d","e","s","c","r","i","p","t","i","o","n"," ","o","f"," ","'">>

generate_writing_ideas(context, topic) ==
  IF topic # << >>
  THEN << IdeaPerspectives \o topic \o <<"'">>,
          IdeaStoryHead \o topic \o IdeaStoryFoot,
          IdeaDescription \o topic \o <<"'">> >>
  ELSE << "Write about a personal experience that changed your perspective",
          "Describe a place that holds special meaning to you",
          "Create a dialogue between two contrasting characters",
          "Write about a moment of realization or discovery" >>

\* POST /api/generate-ideas
generate_ideas(context, topic) ==
  /\ resp' = [op |-> "generate-ideas", context |-> context, topic |-> topic,
              status |-> 200, success |-> TRUE,
              ideas |-> generate_writing_ideas(context, topic)]
  /\ UNCHANGED <<documents, files, now, lastSave, savedCount, nSaves>>

(***************************************************************************)
(* Inputs of the stateless operations                                      *)
(***************************************************************************)
WordGrammar ==
  <<"g","r","a","m","m","a","r">>

WordSpell ==
  <<"S","p","e","l","l">>

WordStyle ==
  <<"s","t","y","l","e">>

WordImprove ==
  <<"I","M","P","R","O","V","E">>

WordIdea ==
  <<"i","d","e","a">>

WordSuggest ==
  <<"s","u","g","g","e","s","t">>

WordHello ==
  <<"H","e","l","l","o">>

WordHi ==
  <<"h","i">>

WordHelpUpper ==
  <<"H","E","L","P">>

WordThis ==
  <<"t","h","i","s">>

WordText ==
  <<"t","e","x","t">>

WordGram ==
  <<"g","r","a","m">>

Words ==
  {WordGrammar, WordSpell, WordStyle, WordImprove, WordIdea, WordSuggest,
   WordHello, WordHi, WordHelpUpper, WordThis, WordText, WordGram}

\* the empty message, single words and pairs of words
Messages ==
  {<< >>} \cup Words \cup {w1 \o <<" ">> \o w2 : w1 \in Words, w2 \in Words}

Contexts == {<< >>, WordHelpUpper}

FormatBogus ==
  <<"b","o","g","u","s">>

FormatUpper ==
  <<"T","X","T">>

ExportContents == {<< >>, Content1, Title1}

ExportRequests ==
  {c @@ f :
     c \in {EmptyMap} \cup {KeyContent :> x : x \in ExportContents},
     f \in {EmptyMap} \cup {KeyFormat :> x : x \in
              {FormatTxt, FormatHtml, FormatMarkdown, FormatBogus, FormatUpper, << >>}}}

GrammarTexts == {<< >>, <<"a", " ", "b">>, <<"a", " ", " ", "b">>, <<" ", " ", " ">>}

StyleTexts ==
  { << >>,
    <<"a", ".", "b">>,
    Repeat("a", LongSentenceLen + 1),
    Repeat("a", LongSentenceLen) \o <<".">> \o Repeat("b", LongSentenceLen),
    <<"a", "\n", "\n">> \o Repeat("b", LongParagraphLen + 1),
    Repeat("a", LongParagraphLen + 1),
    [i \in 1..(LongParagraphLen + 1) |-> IF i % 50 = 0 THEN "." ELSE "a"] }

Topics == {<< >>, WordText}

Save == \E data \in SaveRequests : save_document(data)
Load == \E doc_id \in LoadIds : load_document(doc_id)
List == list_documents
Export == \E data \in ExportRequests : export_document(data)
Chat == \E message \in Messages, context \in Contexts : chat(message, context)
Grammar == \E text \in GrammarTexts : check_grammar(text)
Style == \E text \in StyleTexts : improve_style(text)
Ideas == \E context \in Contexts, topic \in Topics : generate_ideas(context, topic)

\* the stateless operations on one request each, next to the store
ExportOnce == export_document((KeyContent :> Content1) @@ (KeyFormat :> FormatHtml))
ChatOnce == chat(WordHelpUpper, Content1)
GrammarOnce == check_grammar(<<"a", " ", " ", "b">>)
StyleOnce == improve_style(<<"a", ".", "b">>)
IdeasOnce == generate_ideas(<< >>, WordText)

Next ==
  \/ Save \/ Load \/ List \/ Restart
  \/ ExportOnce \/ ChatOnce \/ GrammarOnce \/ StyleOnce \/ IdeasOnce

Spec == Init /\ [][Next]_vars

NextAdvice == Export \/ Chat \/ Grammar \/ Style \/ Ideas

SpecAdvice == Init /\ [][NextAdvice]_vars

TypeOK == now \in 0..MaxClock /\ nSaves \in 0..MaxSaves

(***************************************************************************)
(* Properties                                                              *)
(***************************************************************************)
LastSavedId == lastSave.document[KeyId]

\* the save handled last succeeded and resp is a load of the id it returned
LoadOfLastSave == resp.op = "load" /\ lastSave.ok /\ resp.doc_id = LastSavedId

\* C1: a load of the id returned by a save succeeds and returns a document
\* with that id and with the title and the content given to the save
SaveLoadRoundTrip ==
  LoadOfLastSave =>
    /\ resp.status = 200
    /\ resp.document[KeyId] = LastSavedId
    /\ \A k \in {KeyId, KeyTitle, KeyContent} \cap DOMAIN lastSave.data :
         resp.document[k] = lastSave.data[k]

\* a title with a quote and a backslash is read back after a restart
SaveLoadRoundTripWitness ==
  /\ LoadOfLastSave
  /\ lastSave.data = (KeyTitle :> Title1) @@ (KeyContent :> Content1)
  /\ resp.status = 200
  /\ resp.document[KeyTitle] = Title1
  /\ documents = EmptyMap

\* C2: a load of an id whose file <data_dir>/<id>.json does not exist answers
\* 404 "Document not found" and carries no document, whatever the in-memory
\* mapping holds
LoadMissingIsNotFound ==
  (resp.op = "load" /\ ~Exists(FilePath(resp.doc_id))) =>
    /\ resp.status = 404
    /\ resp.success = FALSE
    /\ resp.error = "Document not found"
    /\ "document" \notin DOMAIN resp

\* the id is in the in-memory mapping and the load of it answers 404
LoadMissingIsNotFoundWitness ==
  /\ resp.op = "load"
  /\ resp.doc_id \in DOMAIN documents
  /\ ~Exists(FilePath(resp.doc_id))
  /\ resp.status = 404

\* C3: a listing is sorted by updated_at, descending, under lexicographic
\* comparison of the strings
ListSortedDescending ==
  (resp.op = "list" /\ resp.status = 200) =>
    \A i \in 1..(Len(resp.documents) - 1) :
      ~StrLess(resp.documents[i].updated_at, resp.documents[i + 1].updated_at)

\* two files, scanned oldest first, are listed newest first
ListSortedDescendingWitness ==
  /\ resp.op = "list"
  /\ resp.status = 200
  /\ Len(resp.documents) = 2
  /\ StrLess(resp.documents[2].updated_at, resp.documents[1].updated_at)
  /\ resp.scan[2] = resp.documents[1].id \o JsonSuffix

\* the ids of the saves that succeeded
SavedIds == DOMAIN savedCount

ListedIds == {resp.documents[i].id : i \in 1..Len(resp.documents)}

\* C4: a listing has one entry per document file of the data directory, with
\* the id, title, created_at and updated_at stored in the file and without
\* content, and the ids listed are exactly the ids saved
ListIsTheSavedDocuments ==
  (resp.op = "list" /\ resp.status = 200) =>
    /\ Len(resp.documents) = Cardinality({n \in ListDir : EndsWith(n, JsonSuffix)})
    /\ \A i \in 1..Len(resp.documents) :
         /\ DOMAIN resp.documents[i] = {"id", "title", "created_at", "updated_at"}
         /\ \E n \in ListDir :
              resp.documents[i] = Metadata(JsonLoad(files[<<DATA_DIR, n>>]).value)
    /\ ListedIds = SavedIds

\* C5: the created_at and the updated_at of the document built by a save are
\* equal, in the response, in the in-memory mapping and in the file
SaveTimestampsEqual ==
  (resp.op = "save" /\ resp.status = 200) =>
    /\ resp.document[KeyCreatedAt] = resp.document[KeyUpdatedAt]
    /\ documents[LastSavedId][KeyCreatedAt] = documents[LastSavedId][KeyUpdatedAt]
    /\ LoadResult(LastSavedId).document[KeyCreatedAt]
         = LoadResult(LastSavedId).document[KeyUpdatedAt]

\* the save handled last succeeded and was at least the second one of its id
SavedAgain == lastSave.ok /\ savedCount[LastSavedId] >= 2

\* C6: after a second save of an id a load of the id returns the title, the
\* content and the timestamps of the later save, and a listing has exactly
\* one entry for the id
LastWriteWins ==
  /\ (SavedAgain /\ resp.op = "load" /\ resp.doc_id = LastSavedId) =>
       (resp.status = 200 /\ resp.document = lastSave.document)
  /\ (SavedAgain /\ resp.op = "list") =>
       /\ resp.status = 200
       /\ Cardinality({i \in 1..Len(resp.documents) :
                         resp.documents[i].id = LastSavedId}) = 1

\* C7: export answers 400 "Unsupported format" for every format other than
\* txt, html and markdown, and succeeds for these three; txt and markdown
\* return the content as given and a missing format counts as txt
ExportFormats ==
  resp.op = "export" =>
    LET content == GetDefault(resp.data, KeyContent, << >>) IN
    IF KeyFormat \notin DOMAIN resp.data
    THEN resp.status = 200 /\ resp.success /\ resp.format = FormatTxt
         /\ resp.content = content
    ELSE IF resp.data[KeyFormat] \in {FormatTxt, FormatMarkdown}
    THEN resp.status = 200 /\ resp.success /\ resp.format = resp.data[KeyFormat]
         /\ resp.content = content
    ELSE IF resp.data[KeyFormat] = FormatHtml
    THEN resp.status = 200 /\ resp.success /\ resp.format = FormatHtml
    ELSE resp.status = 400 /\ resp.success = FALSE
         /\ resp.error = "Unsupported format"

\* the format TXT, in upper case, is refused
ExportFormatsWitness ==
  /\ resp.op = "export"
  /\ KeyFormat \in DOMAIN resp.data
  /\ resp.data[KeyFormat] = FormatUpper
  /\ resp.status = 400

\* the keyword groups in the order of their priority, each with its reply
KeywordGroups ==
  << [keywords |-> {KwGrammar, KwSpell}, reply |-> ReplyGrammar],
     [keywords |-> {KwStyle, KwImprove}, reply |-> ReplyStyle],
     [keywords |-> {KwIdea, KwSuggest}, reply |-> ReplyIdea],
     [keywords |-> {KwHello, KwHi}, reply |-> ReplyHello],
     [keywords |-> {KwHelp}, reply |-> ReplyHelp] >>

MatchingGroups(message) ==
  {g \in 1..Len(KeywordGroups) :
     \E kw \in KeywordGroups[g].keywords : Contains(Lower(message), kw)}

\* C8: the chat reply is the reply of the first keyword group, in priority
\* order, with a keyword inside the lower-cased message, and the echo of the
\* message when no group matches; the context plays no part
ChatReplyByPriority ==
  resp.op = "chat" =>
    IF MatchingGroups(resp.message) = {}
    THEN resp.response = EchoHead \o resp.message \o EchoFoot
    ELSE resp.response =
           KeywordGroups[CHOOSE g \in MatchingGroups(resp.message) :
                           \A h \in MatchingGroups(resp.message) : g <= h].reply

\* "HELP hi" with a context that holds a keyword gets the greeting
ChatReplyByPriorityWitness ==
  /\ resp.op = "chat"
  /\ resp.message = WordHelpUpper \o <<" ">> \o WordHi
  /\ resp.context = WordHelpUpper
  /\ resp.response = ReplyHello

ReadOnlyOps ==
  {"load", "list", "export", "chat", "check-grammar", "improve-style", "generate-ideas"}

\* C9: load, list, export and the text advice operations leave the files and
\* the in-memory mapping as they are, only a save adds or changes an entry of
\* the mapping, and no step removes a file
ReadOnlyFrame ==
  [][ /\ resp'.op \in ReadOnlyOps => (files' = files /\ documents' = documents)
      /\ (\E id \in DOMAIN documents' :
            id \notin DOMAIN documents \/ documents'[id] # documents[id])
           => resp'.op = "save"
      /\ DOMAIN files \subseteq DOMAIN files' ]_vars

\* a document is loaded from its file while the mapping does not have it
ReadOnlyFrameWitness ==
  /\ resp.op = "load"
  /\ resp.status = 200
  /\ resp.doc_id \notin DOMAIN documents

\* C10: for every id of the in-memory mapping the file <data_dir>/<id>.json
\* exists and holds the document of the mapping
CacheMatchesDisk ==
  \A id \in DOMAIN documents :
    /\ Exists(FilePath(id))
    /\ JsonLoad(files[Resolve(FilePath(id)).loc]).ok
    /\ JsonLoad(files[Resolve(FilePath(id)).loc]).value = documents[id]

====
